---- MODULE Spec2Model ----
(***************************************************************************)
(* Model of xudd/lib/tcp.py: the TCP Server actor (accept loop, correlation *)
(* table "requests", send / close / respond) and the TCP Client actor       *)
(* (connect-and-poll generator, send loop).                                 *)
(*                                                                          *)
(* Bytes are modelled as small integers; a byte string is a sequence.       *)
(* Python exceptions are modelled by their class name; "ok" is a normal     *)
(* return.  The spec's error names are the exceptions the code raises at    *)
(* the corresponding place (see UnknownCorrelation, InvalidArguments,       *)
(* ConnectionBroken below).                                                 *)
(***************************************************************************)
EXTENDS Integers, Sequences, FiniteSets, TLC

\* ------------------------------------------------------------------ bounds
\* connections that peers open towards the listening socket
MaxConn == 2
\* longest byte string handed to Server.send / Server.respond / Client.send
MaxLen == 2
\* most bytes ever written to one accepted socket
MaxWritten == 2
\* bytes the Client's peer sends before it stops
MaxStream == 3
\* send() calls made on the Client
MaxSends == 2

\* ------------------------------------------------------- program constants
\* self.socket.listen(5)
Backlog == 5
\* message.body.get('chunk_size', 1024)
DefaultChunkSize == 1024

\* ------------------------------------------------------------- error names
\* sock, bind = self.requests.get(id) with id absent: get() gives None and
\* the tuple unpacking raises TypeError
UnknownCorrelation == "TypeError"
\* raise ValueError(...) in Client.connect
InvalidArguments == "ValueError"
\* raise RuntimeError('socket connection broken')
ConnectionBroken == "RuntimeError"

\* in_reply_to of a message that is not a reply
None == 0

\* the byte string 1, 2, .., n
Bytes(n) == [i \in 1..n |-> i]
Payloads == {Bytes(n) : n \in 0..MaxLen}

\* correlation ids a caller may name: None and every id the Server can have
\* been given
ReplyIds == 0..MaxConn

VARIABLES
    lpc,        \* Server.listen generator: "idle", "loop" (running), "yield"
    pending,    \* connections waiting in the listening socket's queue
    requests,   \* Server.requests: message id -> <<socket, address>>
    sockState,  \* accepted socket -> "open" | "reset" (by the peer) | "closed"
    written,    \* accepted socket -> bytes written to it so far
    lsent,      \* messages the Server has sent, in order
    nextId,     \* last message id issued by send_message
    lres,       \* the last Server operation: how it was invoked and ended
    ldata,      \* the bytes in the body of the last message or call
    responded,  \* ids on which respond has completed
    dpc,        \* Client.connect generator: "idle","poll","yield","failed"
    derr,       \* exception that ended Client.connect, or "none"
    dops,       \* socket operations Client.connect has performed
    chunk_size, \* chunk_size of the running connect
    arrived,    \* bytes the peer has sent on the Client's socket
    rpos,       \* bytes the Client has read from its socket
    peer,       \* state of the Client's connection: "up","fin","hup","err"
    dsent,      \* messages the Client has sent, in order
    dread,      \* result of the last recv of the poll loop
    dbody,      \* keys of the body of the connect message
    dflag,      \* event flags the last poller.poll() reported
    spc,        \* Client.send: "idle", "sending", "done", "failed"
    out,        \* payload of the running / last Client.send
    total_sent, \* total_sent of the running / last Client.send
    wire,       \* bytes the socket accepted during the running / last send
    writes,     \* socket.send calls issued by the running / last send
    serr,       \* exception that ended the last Client.send, or "none"
    nsends      \* Client.send calls made

lvars == <<lpc, pending, requests, sockState, written, lsent, lres, ldata,
           responded>>
dvars == <<dpc, derr, dops, chunk_size, arrived, rpos, peer, dsent, dread,
           dbody, dflag>>
svars == <<spc, out, total_sent, wire, writes, serr, nsends>>
vars == <<lvars, nextId, dvars, svars>>

\* ---------------------------------------------------------------- helpers
Update(f, k, v) == [x \in DOMAIN f \cup {k} |-> IF x = k THEN v ELSE f[x]]
Remove(f, k) == [x \in DOMAIN f \ {k} |-> f[x]]

\* sockets accept() has created so far
nsock == Cardinality(DOMAIN sockState)

\* Actor.send_message: the message is queued under a fresh id, which is
\* returned to the sender
send_message(log, to, directive, body) ==
    Append(log, [id |-> nextId + 1, to |-> to,
                 directive |-> directive, body |-> body])

\* Server.__init__: the directives the Server registers
message_routing == [respond |-> "respond", listen |-> "listen"]

\* no unit is between two yield points: the scheduler may start or resume one
Idle == lpc # "loop" /\ dpc # "poll" /\ spc # "sending"

\* ------------------------------------------------------------ Server.listen
\* body={'request': req}
handle_request_body(req) == [request |-> req]

\* slip: the connection is stored under its position in the table
register_by_index(message_id, req) ==
    Update(requests, Cardinality(DOMAIN requests), req)

\* slip: the accepted connection is not stored
register_lost(message_id, req) == requests

\* self.requests.update({message_id: req})
register(message_id, req) == Update(requests, message_id, req)

\* slip: the listening socket is never found readable
readable_never == FALSE

\* readable, writable, errored = select.select([self.socket], [], [], ...):
\* the listening socket is readable when a connection waits in its queue
readable == pending > 0

\* slip: the yield is reached only when nothing was accepted
after_iteration_skip(accepted) == IF accepted THEN "loop" ELSE "yield"

\* yield self.wait_on_self(), after the if, in every iteration
after_iteration(accepted) == "yield"

\* the 'listen' message: bind, listen, enter the loop
listen ==
    /\ Idle
    /\ "listen" \in DOMAIN message_routing
    /\ lpc = "idle"
    /\ lpc' = "loop"
    /\ UNCHANGED <<pending, requests, sockState, written, lsent, lres,
                   ldata, responded, nextId, dvars, svars>>

\* a peer connects to the listening socket
PeerConnect ==
    /\ lpc # "idle"
    /\ pending < Backlog
    /\ pending + nsock < MaxConn
    /\ pending' = pending + 1
    /\ UNCHANGED <<lpc, requests, sockState, written, lsent, lres,
                   ldata, responded, nextId, dvars, svars>>

\* one iteration of the accept loop, from select() to the yield
listen_iteration ==
    /\ lpc = "loop"
    /\ IF readable
       THEN LET sock == nsock + 1
                \* req = self.socket.accept(): (socket, address)
                req == <<sock, <<"peer", sock>> >>
                message_id == nextId + 1
            IN   /\ pending' = pending - 1
                 /\ sockState' = Update(sockState, sock, "open")
                 /\ written' = Update(written, sock, <<>>)
                 /\ lsent' = send_message(lsent, "request_handler",
                                          "handle_request",
                                          handle_request_body(req))
                 /\ nextId' = message_id
                 /\ requests' = register(message_id, req)
       ELSE UNCHANGED <<pending, sockState, written, lsent, nextId, requests>>
    /\ lpc' = after_iteration(readable)
    /\ UNCHANGED <<lres, ldata, responded, dvars, svars>>

\* the peer of an accepted connection resets it
PeerReset ==
    \E sock \in DOMAIN sockState :
        /\ sockState[sock] = "open"
        /\ sockState' = [sockState EXCEPT ![sock] = "reset"]
        /\ UNCHANGED <<lpc, pending, requests, written, lsent, lres, ldata,
                       responded, nextId, dvars, svars>>

\* the scheduler resumes the generator after wait_on_self()
listen_resume ==
    /\ Idle
    /\ lpc = "yield"
    /\ lpc' = "loop"
    /\ UNCHANGED <<pending, requests, sockState, written, lsent, lres,
                   ldata, responded, nextId, dvars, svars>>

\* ------------------------------------------- Server.send / close / respond
Result(op, id, res, via, directive) ==
    [op |-> op, id |-> id, res |-> res, via |-> via,
     directive |-> directive, tick |-> 1 - lres.tick]

\* slip: the whole table is emptied
del_request_all(id) == <<>>

\* slip: the entry is not deleted
del_request_lost(id) == requests

\* del self.requests[message.in_reply_to]
del_request(id) == Remove(requests, id)

\* slip: a write on any socket succeeds
sendall_ok_always(sock) == TRUE

\* sock.sendall(data): raises on a socket this process has closed and on a
\* connection the peer has reset
sendall_ok(sock) == sockState[sock] = "open"

\* slip: send closes the socket and drops the entry, as respond does
Server_send_closing(id, data, via, directive) ==
    IF id \notin DOMAIN requests
    THEN /\ lres' = Result("send", id, UnknownCorrelation, via, directive)
         /\ UNCHANGED <<requests, sockState, written, responded>>
    ELSE LET sock == requests[id][1]
         IN IF sendall_ok(sock)
            THEN /\ written' = [written EXCEPT ![sock] = @ \o data]
                 /\ sockState' = [sockState EXCEPT ![sock] = "closed"]
                 /\ requests' = Remove(requests, id)
                 /\ lres' = Result("send", id, "ok", via, directive)
                 /\ UNCHANGED responded
            ELSE /\ lres' = Result("send", id, "OSError", via, directive)
                 /\ UNCHANGED <<requests, sockState, written, responded>>

Server_send(id, data, via, directive) ==
    IF id \notin DOMAIN requests
    THEN /\ lres' = Result("send", id, UnknownCorrelation, via, directive)
         /\ UNCHANGED <<requests, sockState, written, responded>>
    ELSE LET sock == requests[id][1]
         IN IF sendall_ok(sock)
            THEN /\ written' = [written EXCEPT ![sock] = @ \o data]
                 /\ lres' = Result("send", id, "ok", via, directive)
                 /\ UNCHANGED <<requests, sockState, responded>>
            ELSE /\ lres' = Result("send", id, "OSError", via, directive)
                 /\ UNCHANGED <<requests, sockState, written, responded>>

\* slip: close also drops the entry
Server_close_evicts(id, via, directive) ==
    IF id \notin DOMAIN requests
    THEN /\ lres' = Result("close", id, UnknownCorrelation, via, directive)
         /\ UNCHANGED <<requests, sockState, written, responded>>
    ELSE LET sock == requests[id][1]
         IN /\ sockState' = [sockState EXCEPT ![sock] = "closed"]
            /\ requests' = Remove(requests, id)
            /\ lres' = Result("close", id, "ok", via, directive)
            /\ UNCHANGED <<written, responded>>

Server_close(id, via, directive) ==
    IF id \notin DOMAIN requests
    THEN /\ lres' = Result("close", id, UnknownCorrelation, via, directive)
         /\ UNCHANGED <<requests, sockState, written, responded>>
    ELSE LET sock == requests[id][1]
         IN /\ sockState' = [sockState EXCEPT ![sock] = "closed"]
            /\ lres' = Result("close", id, "ok", via, directive)
            /\ UNCHANGED <<requests, written, responded>>

\* slip: the socket is closed and the entry deleted whether or not the write
\* succeeded
Server_respond_cleanup(id, data, via, directive) ==
    IF id \notin DOMAIN requests
    THEN /\ lres' = Result("respond", id, UnknownCorrelation, via, directive)
         /\ UNCHANGED <<requests, sockState, written, responded>>
    ELSE LET sock == requests[id][1]
         IN /\ sockState' = [sockState EXCEPT ![sock] = "closed"]
            /\ requests' = del_request(id)
            /\ IF sendall_ok(sock)
               THEN /\ written' = [written EXCEPT ![sock] = @ \o data]
                    /\ responded' = responded \cup {id}
                    /\ lres' = Result("respond", id, "ok", via, directive)
               ELSE /\ lres' = Result("respond", id, "OSError", via,
                                      directive)
                    /\ UNCHANGED <<written, responded>>

\* slip: a missing entry is skipped silently
Server_respond_quiet(id, data, via, directive) ==
    IF id \notin DOMAIN requests
    THEN /\ lres' = Result("respond", id, "ok", via, directive)
         /\ UNCHANGED <<requests, sockState, written, responded>>
    ELSE LET sock == requests[id][1]
         IN IF sendall_ok(sock)
            THEN /\ written' = [written EXCEPT ![sock] = @ \o data]
                 /\ sockState' = [sockState EXCEPT ![sock] = "closed"]
                 /\ requests' = del_request(id)
                 /\ responded' = responded \cup {id}
                 /\ lres' = Result("respond", id, "ok", via, directive)
            ELSE /\ lres' = Result("respond", id, "OSError", via, directive)
                 /\ UNCHANGED <<requests, sockState, written, responded>>

Server_respond(id, data, via, directive) ==
    IF id \notin DOMAIN requests
    THEN /\ lres' = Result("respond", id, UnknownCorrelation, via, directive)
         /\ UNCHANGED <<requests, sockState, written, responded>>
    ELSE LET sock == requests[id][1]
         IN IF sendall_ok(sock)
            THEN /\ written' = [written EXCEPT ![sock] = @ \o data]
                 /\ sockState' = [sockState EXCEPT ![sock] = "closed"]
                 /\ requests' = del_request(id)
                 /\ responded' = responded \cup {id}
                 /\ lres' = Result("respond", id, "ok", via, directive)
            ELSE /\ lres' = Result("respond", id, "OSError", via, directive)
                 /\ UNCHANGED <<requests, sockState, written, responded>>

\* no unit is running and the write fits the bound
Callable(id, data) ==
    /\ Idle
    /\ id \in DOMAIN requests
         => Len(written[requests[id][1]]) + Len(data) <= MaxWritten

Invoke(method, id, data, via, directive) ==
    CASE method = "respond" -> Server_respond(id, data, via, directive)
      [] method = "send" -> Server_send(id, data, via, directive)
      [] method = "close" -> Server_close(id, via, directive)

\* Actor.handle_message: a message is handed to the method its directive is
\* registered for; an unregistered directive reaches no method
handle_message(directive, id, data) ==
    /\ Callable(id, data)
    /\ ldata' = data
    /\ IF directive \in DOMAIN message_routing
       THEN Invoke(message_routing[directive], id, data, "message", directive)
       ELSE /\ lres' = Result("none", id, "KeyError", "message", directive)
            /\ UNCHANGED <<requests, sockState, written, responded>>
    /\ UNCHANGED <<lpc, pending, lsent, nextId, dvars, svars>>

\* a message with directive respond, send or close is delivered
Deliver ==
    \E directive \in {"respond", "send", "close"}, id \in ReplyIds :
        \E data \in IF directive = "close" THEN {<<>>} ELSE Payloads :
            handle_message(directive, id, data)

\* Server.send or Server.close invoked as a method
Call ==
    \E method \in {"send", "close"}, id \in ReplyIds :
      \E data \in IF method = "close" THEN {<<>>} ELSE Payloads :
        /\ Callable(id, data)
        /\ ldata' = data
        /\ Invoke(method, id, data, "call", method)
        /\ UNCHANGED <<lpc, pending, lsent, nextId, dvars, svars>>

\* ----------------------------------------------------------- Client.connect
Flags == {"POLLIN", "POLLPRI", "POLLHUP", "POLLERR"}

\* bytes received on the Client's socket and not yet read
avail == arrived - rpos

Min(a, b) == IF a < b THEN a ELSE b

\* slip: the whole buffer instead of the unsent rest
Slice_whole(s, from) == s

\* out[from:]
Slice(s, from) == SubSeq(s, from + 1, Len(s))

\* str.format: a replacement field named by keyword needs that keyword
\* argument, whatever positional arguments are given
format(fields, kwargs) == IF fields \subseteq kwargs THEN "ok" ELSE "KeyError"

\* raise ValueError('{klass}.connect ...'.format(self.__class__.__name__)):
\* the exception that leaves the except block
connect_error ==
    LET text == format({"klass"}, {})
    IN IF text = "ok" THEN "ValueError" ELSE text

\* what poller.poll() can report for the one registered socket
PollEvents ==
    LET need == (IF avail > 0 \/ peer = "fin" THEN {"POLLIN"} ELSE {})
                \cup (IF peer = "hup" THEN {"POLLHUP"} ELSE {})
                \cup (IF peer = "err" THEN {"POLLERR"} ELSE {})
        may == (IF peer \in {"hup", "err"} THEN {"POLLIN", "POLLHUP"} ELSE {})
               \cup (IF avail > 0 THEN {"POLLPRI"} ELSE {})
    IN {need \cup extra : extra \in SUBSET may}

\* the 'connect' message: the generator runs up to its poll loop
connect(body, cs) ==
    /\ Idle
    /\ "connect" \in {"connect", "send"}
    /\ dpc = "idle"
    /\ dbody' = body
    /\ IF "host" \notin body \/ "port" \notin body
       THEN /\ dpc' = "failed"
            /\ derr' = connect_error
            /\ UNCHANGED <<dops, chunk_size>>
       ELSE /\ dpc' = "poll"
            /\ dops' = dops \cup {"create_connection", "setblocking",
                                  "register"}
            /\ chunk_size' = IF "chunk_size" \in body THEN cs
                             ELSE DefaultChunkSize
            /\ UNCHANGED derr
    /\ UNCHANGED <<arrived, rpos, peer, dsent, dread, dflag, nextId, lvars,
                   svars>>

Connect ==
    \E body \in SUBSET {"host", "port", "chunk_size"}, cs \in 1..2 :
        connect(body, cs)

\* slip: the receive buffer is one byte larger than asked for
recv_over(size) ==
    IF avail > 0
    THEN {[res |-> "ok", chunk |-> [i \in 1..n |-> rpos + i]] :
            n \in 1..Min(size + 1, avail)}
    ELSE IF peer = "err"
    THEN {[res |-> "OSError", chunk |-> <<>>]}
    ELSE {[res |-> "ok", chunk |-> <<>>]}

\* self.socket.recv(chunk_size): some of the bytes that have arrived, at most
\* chunk_size of them; nothing once the peer is gone; an error after a reset
recv(size) ==
    IF avail > 0
    THEN {[res |-> "ok", chunk |-> [i \in 1..n |-> rpos + i]] :
            n \in 1..Min(size, avail)}
    ELSE IF peer = "err"
    THEN {[res |-> "OSError", chunk |-> <<>>]}
    ELSE {[res |-> "ok", chunk |-> <<>>]}

\* slip: the empty read is not detected
broken_never(chunk) == FALSE

\* chunk in ['', b'']
broken(chunk) == chunk = <<>>

\* slip: the Client's socket travels with the chunk
handle_chunk_body_leak(chunk) == [chunk |-> chunk, socket |-> "self.socket"]

\* body={'chunk': chunk}
handle_chunk_body(chunk) == [chunk |-> chunk]

\* one iteration of the poll loop, from poller.poll() to the yield or raise
poll_iteration ==
    /\ dpc = "poll"
    /\ \E flag \in PollEvents :
        /\ dflag' = flag
        /\ IF flag \cap {"POLLIN", "POLLPRI"} = {}
           THEN /\ dops' = dops \cup {"poll"}
                /\ dpc' = "yield"
                /\ UNCHANGED <<derr, rpos, dsent, dread, nextId>>
           ELSE \E r \in recv(chunk_size) :
                /\ dops' = dops \cup {"poll", "recv"}
                /\ dread' = [n |-> dread.n + 1, chunk |-> r.chunk,
                             res |-> r.res]
                /\ rpos' = rpos + Len(r.chunk)
                /\ IF r.res # "ok"
                   THEN /\ dpc' = "failed"
                        /\ derr' = r.res
                        /\ UNCHANGED <<dsent, nextId>>
                   ELSE IF broken(r.chunk)
                   THEN /\ dpc' = "failed"
                        /\ derr' = ConnectionBroken
                        /\ UNCHANGED <<dsent, nextId>>
                   ELSE /\ dsent' = send_message(dsent, "chunk_handler",
                                                 "handle_chunk",
                                                 handle_chunk_body(r.chunk))
                        /\ nextId' = nextId + 1
                        /\ dpc' = "yield"
                        /\ UNCHANGED derr
    /\ UNCHANGED <<chunk_size, arrived, peer, dbody, lvars, svars>>

\* the scheduler resumes the generator after wait_on_self()
poll_resume ==
    /\ Idle
    /\ dpc = "yield"
    /\ dpc' = "poll"
    /\ UNCHANGED <<derr, dops, chunk_size, arrived, rpos, peer, dsent, dread,
                   dbody, dflag, nextId, lvars, svars>>

\* the peer sends one more byte
PeerSend ==
    /\ dpc \in {"poll", "yield"}
    /\ peer = "up"
    /\ arrived < MaxStream
    /\ arrived' = arrived + 1
    /\ UNCHANGED <<dpc, derr, dops, chunk_size, rpos, peer, dsent, dread,
                   dbody, dflag, nextId, lvars, svars>>

\* the peer closes its side, goes away, or the connection is reset
PeerEnd ==
    /\ dpc \in {"poll", "yield"}
    /\ peer = "up"
    /\ peer' \in {"fin", "hup", "err"}
    /\ UNCHANGED <<dpc, derr, dops, chunk_size, arrived, rpos, dsent, dread,
                   dbody, dflag, nextId, lvars, svars>>

\* -------------------------------------------------------------- Client.send
\* the 'send' message: up to the first test of the while loop
send_start ==
    /\ Idle
    /\ nsends < MaxSends
    /\ \E length \in 0..MaxLen :
        /\ out' = Bytes(length)
        /\ total_sent' = 0
        /\ wire' = <<>>
        /\ writes' = 0
        /\ nsends' = nsends + 1
        /\ IF length = 0
           THEN spc' = "done" /\ serr' = "none"
           ELSE IF "create_connection" \notin dops
           THEN spc' = "failed" /\ serr' = "AttributeError"
           ELSE spc' = "sending" /\ serr' = "none"
    /\ UNCHANGED <<dvars, nextId, lvars>>

\* slip: a write that accepts nothing is tried again
zero_is_broken_never(sent) == FALSE

\* if sent == 0
zero_is_broken(sent) == sent = 0

\* one pass of the while loop: sent = self.socket.send(out[total_sent:])
send_write ==
    /\ spc = "sending"
    /\ total_sent < Len(out)
    /\ writes <= MaxLen
    /\ writes' = writes + 1
    /\ \/ \E sent \in 0..Len(Slice(out, total_sent)) :
            /\ wire' = wire \o SubSeq(Slice(out, total_sent), 1, sent)
            /\ IF zero_is_broken(sent)
               THEN /\ spc' = "failed"
                    /\ serr' = ConnectionBroken
                    /\ UNCHANGED total_sent
               ELSE /\ total_sent' = total_sent + sent
                    /\ spc' = IF total_sent + sent < Len(out)
                              THEN "sending" ELSE "done"
                    /\ UNCHANGED serr
       \/ /\ peer = "err"
          /\ spc' = "failed"
          /\ serr' = "OSError"
          /\ UNCHANGED <<wire, total_sent>>
    /\ UNCHANGED <<out, nsends, dvars, nextId, lvars>>

\* ------------------------------------------------------------ specification
Init ==
    /\ lpc = "idle"
    /\ pending = 0
    /\ requests = <<>>
    /\ sockState = <<>>
    /\ written = <<>>
    /\ lsent = <<>>
    /\ nextId = 0
    /\ lres = [op |-> "none", id |-> None, res |-> "none", via |-> "none",
               directive |-> "none", tick |-> 0]
    /\ ldata = <<>>
    /\ responded = {}
    /\ dpc = "idle"
    /\ derr = "none"
    /\ dops = {}
    /\ chunk_size = DefaultChunkSize
    /\ arrived = 0
    /\ rpos = 0
    /\ peer = "up"
    /\ dsent = <<>>
    /\ dread = [n |-> 0, chunk |-> <<>>, res |-> "none"]
    /\ dbody = {}
    /\ dflag = {}
    /\ spc = "idle"
    /\ out = <<>>
    /\ total_sent = 0
    /\ wire = <<>>
    /\ writes = 0
    /\ serr = "none"
    /\ nsends = 0

ServerNext ==
    \/ listen
    \/ PeerConnect
    \/ listen_iteration
    \/ listen_resume
    \/ PeerReset
    \/ Deliver
    \/ Call

ClientNext ==
    \/ Connect
    \/ poll_iteration
    \/ poll_resume
    \/ PeerSend
    \/ PeerEnd
    \/ send_start
    \/ send_write

\* the Server unit alone
Spec == Init /\ [][ServerNext]_vars

\* the Client unit alone
ClientSpec == Init /\ [][ClientNext]_vars

\* the Client unit, with each started iteration and write carried out and the
\* generator resumed after each yield
FairClientSpec ==
    /\ ClientSpec
    /\ WF_vars(poll_iteration)
    /\ WF_vars(poll_resume)
    /\ WF_vars(send_write)

\* the accept loop and the poll loop, interleaved by the scheduler
LoopsNext ==
    \/ listen
    \/ PeerConnect
    \/ listen_iteration
    \/ listen_resume
    \/ Connect
    \/ poll_iteration
    \/ poll_resume
    \/ PeerSend
    \/ PeerEnd

LoopsSpec == Init /\ [][LoopsNext]_vars

\* the two loops, with each started iteration carried out up to its yield
\* and the Server resumed again and again after it has yielded
FairLoopsSpec ==
    /\ LoopsSpec
    /\ WF_vars(listen_iteration)
    /\ WF_vars(poll_iteration)
    /\ SF_vars(listen_resume)

\* ------------------------------------------------------------------ claims
\* a step in which a Server operation ran
OpStep == lres'.tick # lres.tick

\* C1: as long as no respond has completed, the Server has sent one
\* handle_request message per accepted connection and the table holds one
\* entry per accepted connection, each under the id of its message, the ids
\* being pairwise distinct.
C1_OneEntryPerAccept ==
    responded = {} =>
        /\ Len(lsent) = nsock
        /\ Cardinality(DOMAIN requests) = nsock
        /\ \A i \in 1..Len(lsent) :
              /\ lsent[i].directive = "handle_request"
              /\ lsent[i].id \in DOMAIN requests
              /\ requests[lsent[i].id][1] = i
        /\ \A i, j \in 1..Len(lsent) : i # j => lsent[i].id # lsent[j].id

C1_Witness ==
    /\ responded = {}
    /\ nsock >= 2
    /\ lres.op = "close" /\ lres.res = "ok"

\* C2: once respond has completed on an id, every later respond, send or
\* close naming that id fails with UnknownCorrelation.
C2_RespondedIsUnknown ==
    [][(OpStep /\ lres'.op \in {"respond", "send", "close"}
               /\ lres'.id \in responded)
         => lres'.res = UnknownCorrelation]_vars

C2_Witness ==
    /\ lres.id \in responded
    /\ lres.op = "close"
    /\ lres.res = UnknownCorrelation

\* C3: send on an entry whose socket is open succeeds, keeps the entry and
\* keeps the socket open, however often it is repeated; respond on such an
\* entry succeeds and removes the entry.
C3_SendKeepsRespondRemoves ==
    [][(OpStep /\ lres'.id \in DOMAIN requests
               /\ sockState[requests[lres'.id][1]] = "open")
         => /\ lres'.op = "send" =>
                  /\ lres'.res = "ok"
                  /\ requests' = requests
                  /\ sockState' = sockState
            /\ lres'.op = "respond" =>
                  /\ lres'.res = "ok"
                  /\ lres'.id \notin DOMAIN requests'
                  /\ DOMAIN requests' = DOMAIN requests \ {lres'.id}]_vars

\* a respond that succeeded on a socket two sends had written to before
C3_Witness ==
    /\ lres.op = "respond"
    /\ lres.res = "ok"
    /\ lres.id \notin DOMAIN requests
    /\ \E i \in 1..Len(lsent) :
          /\ lsent[i].id = lres.id
          /\ written[lsent[i].body.request[1]] = <<1, 1>>

\* C4 as stated: no message of either unit carries a socket handle.
C4_NoHandleInAnyMessage ==
    /\ \A i \in 1..Len(lsent) : "request" \notin DOMAIN lsent[i].body
    /\ \A i \in 1..Len(dsent) : "request" \notin DOMAIN dsent[i].body

\* C4 amended: the Client's messages carry nothing but the bytes of a chunk;
\* each message of the Server is a handle_request whose body is the
\* (socket, address) pair of an accepted connection, the very pair the table
\* holds under the message's id until respond removes it.
C4_OnlyHandleRequestCarriesHandle ==
    /\ \A i \in 1..Len(dsent) :
          /\ dsent[i].directive = "handle_chunk"
          /\ DOMAIN dsent[i].body = {"chunk"}
          /\ \A j \in 1..Len(dsent[i].body.chunk) :
                dsent[i].body.chunk[j] \in Nat
    /\ \A i \in 1..Len(lsent) :
          /\ lsent[i].directive = "handle_request"
          /\ DOMAIN lsent[i].body = {"request"}
          /\ lsent[i].body.request[1] \in DOMAIN sockState
          /\ \/ lsent[i].id \in responded
             \/ /\ lsent[i].id \in DOMAIN requests
                /\ requests[lsent[i].id] = lsent[i].body.request

C4_Witness ==
    /\ Len(lsent) >= 1
    /\ Len(dsent) >= 1

\* C5 as stated: a message with directive respond, send or close delivered
\* to the Server runs the operation of that name.
C5_DirectiveRunsOperation ==
    (lres.via = "message" /\ lres.directive \in {"respond", "send", "close"})
        => lres.op = lres.directive

\* C6 as stated: connect with a body lacking host or port fails with
\* InvalidArguments, having done nothing to any socket and sent nothing.
C6_MissingArgumentIsInvalidArguments ==
    (dpc # "idle" /\ ~({"host", "port"} \subseteq dbody))
        => /\ dpc = "failed"
           /\ derr = InvalidArguments
           /\ dops = {}
           /\ dsent = <<>>

\* C7: a read of zero bytes ends the poll loop with ConnectionBroken without
\* a handle_chunk message, and a Client whose loop has ended sends none.
C7_EmptyReadEndsLoop ==
    [][/\ (dread'.n # dread.n /\ dread'.res = "ok" /\ dread'.chunk = <<>>)
            => /\ dpc' = "failed"
               /\ derr' = ConnectionBroken
               /\ dsent' = dsent
       /\ dpc = "failed" => (dsent' = dsent /\ dpc' = "failed")]_vars

C7_Witness ==
    /\ dread.res = "ok"
    /\ dread.chunk = <<>>
    /\ dpc = "failed"
    /\ Len(dsent) >= 1

\* C8: while send runs, the bytes the socket has accepted are the first
\* total_sent bytes of the payload; when send returns normally they are the
\* whole payload, and an empty payload causes no write.
C8_SendsExactlyPayload ==
    /\ spc \in {"sending", "done"} =>
          /\ Len(wire) = total_sent
          /\ wire = SubSeq(out, 1, total_sent)
    /\ spc = "done" =>
          /\ total_sent = Len(out)
          /\ wire = out
          /\ Len(out) = 0 => writes = 0

\* a payload that went out in two partial writes
C8_Witness ==
    /\ spc = "done"
    /\ Len(out) = 2
    /\ writes = 2

\* C9: respond, send or close naming an id that is not in the table fails
\* with UnknownCorrelation and changes neither the table nor any socket.
C9_AbsentIdFailsWithoutEffect ==
    [][(OpStep /\ lres'.op \in {"respond", "send", "close"}
               /\ lres'.id \notin DOMAIN requests)
         => /\ lres'.res = UnknownCorrelation
            /\ UNCHANGED <<requests, sockState, written>>]_vars

C9_Witness ==
    /\ lres.op = "respond"
    /\ lres.res = UnknownCorrelation
    /\ lres.id \notin responded
    /\ DOMAIN requests # {}

\* C10: close naming an id in the table closes that entry's socket, writes
\* nothing, and leaves the table as it was.
C10_CloseKeepsEntry ==
    [][(OpStep /\ lres'.op = "close" /\ lres'.id \in DOMAIN requests)
         => /\ lres'.res = "ok"
            /\ sockState'[requests[lres'.id][1]] = "closed"
            /\ \A k \in DOMAIN sockState \ {requests[lres'.id][1]} :
                  sockState'[k] = sockState[k]
            /\ written' = written
            /\ requests' = requests]_vars

C10_Witness ==
    /\ lres.op = "close"
    /\ lres.res = "ok"
    /\ lres.id \in DOMAIN requests
    /\ sockState[requests[lres.id][1]] = "closed"
    /\ written[requests[lres.id][1]] # <<>>

\* the last poll reported a broken connection: a hangup, an error, or
\* readability followed by a read of zero bytes
ReportedBroken ==
    /\ dpc # "idle"
    /\ \/ "POLLHUP" \in dflag
       \/ "POLLERR" \in dflag
       \/ (dread.n > 0 /\ dread.res = "ok" /\ dread.chunk = <<>>)

\* C11 as stated: once the poll has reported a hangup, an error, or
\* readability with a read of zero bytes, the poll loop eventually ends in a
\* fatal failure: ConnectionBroken, or (reading the claim in its favour) the
\* error recv raises on a reset connection.
C11_BrokenEventuallyRaises ==
    ReportedBroken
        ~> (dpc = "failed" /\ derr \in {ConnectionBroken, "OSError"})

\* C12 as stated: every entry of the table refers to a socket that has not
\* been closed.
C12_EntriesAreOpen ==
    \A id \in DOMAIN requests : sockState[requests[id][1]] # "closed"

\* C13: a step accepts at most one connection, and only as the iteration that
\* takes the Server from its loop to the yield; every iteration, accepting or
\* not, ends at the yield, so two accepts are always separated by a yield.
C13_OneAcceptPerIteration ==
    [][/\ nsock' <= nsock + 1
       /\ nsock' # nsock =>
             /\ lpc = "loop"
             /\ lpc' = "yield"
             /\ pending' = pending - 1
             /\ Len(lsent') = Len(lsent) + 1
       /\ (lpc = "loop" /\ <<lpc, nsock, requests, lsent>>'
                             # <<lpc, nsock, requests, lsent>>)
             => lpc' = "yield"
       /\ (lpc = "yield" /\ lpc' = "loop") => nsock' = nsock]_vars

\* one connection accepted, the Server at its yield, another still waiting
C13_Witness ==
    /\ lpc = "yield"
    /\ nsock = 1
    /\ pending = 1

\* C14: when the Server is resumed after each yield, the n-th connection to
\* reach the listening socket is eventually accepted, announced by the n-th
\* handle_request message and registered under that message's id; once
\* started, the loop is never left.
C14_PendingEventuallyAccepted ==
    /\ \A n \in 1..MaxConn :
          (pending + nsock >= n)
              ~> /\ nsock >= n
                 /\ Len(lsent) >= n
                 /\ lsent[n].directive = "handle_request"
                 /\ lsent[n].id \in DOMAIN requests \cup responded
    /\ [][lpc # "idle" => lpc' \in {"loop", "yield"}]_vars

C14_Witness ==
    /\ nsock = MaxConn
    /\ Len(lsent) = MaxConn
    /\ pending = 0
    /\ lpc = "loop"

\* C15: every handle_request message the Server has sent has its connection
\* in the table under the message's id until respond completes on it, so a
\* respond, send or close replying to such a message, before any completed
\* respond, never fails for want of the entry.
C15_ReplyFindsEntry ==
    /\ [](\A i \in 1..Len(lsent) :
             lsent[i].id \in responded \/ lsent[i].id \in DOMAIN requests)
    /\ [][(/\ OpStep
           /\ lres'.op \in {"respond", "send", "close"}
           /\ \E i \in 1..Len(lsent) : lsent[i].id = lres'.id
           /\ lres'.id \notin responded)
          => /\ lres'.res # UnknownCorrelation
             /\ lres'.id \in DOMAIN requests]_vars

\* a send answering the latest of two handle_request messages
C15_Witness ==
    /\ lpc = "yield"
    /\ nsock = 2
    /\ lres.op = "send"
    /\ lres.res = "ok"
    /\ lres.id = lsent[Len(lsent)].id

\* C16: respond, send and close naming id leave every other entry and every
\* other socket as they were; respond on an entry whose socket is usable
\* appends exactly the bytes of its message to that socket, closes it and
\* removes that one entry.
C16_RespondWritesClosesRemoves ==
    [][(OpStep /\ lres'.op \in {"respond", "send", "close"})
         => /\ DOMAIN requests' \subseteq DOMAIN requests
            /\ \A j \in DOMAIN requests \ {lres'.id} :
                  j \in DOMAIN requests' /\ requests'[j] = requests[j]
            /\ \A k \in DOMAIN sockState :
                  (lres'.id \notin DOMAIN requests
                      \/ k # requests[lres'.id][1])
                  => (sockState'[k] = sockState[k]
                        /\ written'[k] = written[k])
            /\ (/\ lres'.op = "respond"
                /\ lres'.id \in DOMAIN requests
                /\ sockState[requests[lres'.id][1]] = "open")
               => /\ lres'.res = "ok"
                  /\ written'[requests[lres'.id][1]]
                        = written[requests[lres'.id][1]] \o ldata'
                  /\ sockState'[requests[lres'.id][1]] = "closed"
                  /\ DOMAIN requests' = DOMAIN requests \ {lres'.id}]_vars

\* a two-byte respond on one connection while another stays registered
C16_Witness ==
    /\ lres.op = "respond"
    /\ lres.res = "ok"
    /\ ldata = <<1, 2>>
    /\ DOMAIN requests # {}
    /\ \E k \in DOMAIN written : written[k] = <<1, 2>>

RECURSIVE Concat(_)
\* the chunks of the first n handle_chunk messages, joined in sending order
Concat(n) == IF n = 0 THEN <<>> ELSE Concat(n - 1) \o dsent[n].body.chunk

\* C17: every handle_chunk message carries at least one byte and at most
\* chunk_size bytes, chunk_size being 1024 unless the connect message gave
\* one, and the chunks joined in sending order are the bytes read from the
\* socket so far, in order.
C17_ChunksAreTheStream ==
    /\ "chunk_size" \notin dbody => chunk_size = DefaultChunkSize
    /\ \A i \in 1..Len(dsent) :
          /\ dsent[i].directive = "handle_chunk"
          /\ Len(dsent[i].body.chunk) >= 1
          /\ Len(dsent[i].body.chunk) <= chunk_size
    /\ Concat(Len(dsent)) = [i \in 1..rpos |-> i]
    /\ rpos <= arrived

\* three bytes delivered in chunks of at most two
C17_Witness ==
    /\ chunk_size = 2
    /\ rpos = 3
    /\ Len(dsent) = 2

\* C18: send issues at most one write per byte of its payload; a write either
\* advances total_sent or ends send in failure, ConnectionBroken when the
\* socket accepted nothing; nothing else is run while send is under way; and
\* a send under way ends, fully sent or failed.
C18_SendTerminates ==
    /\ [](/\ writes <= Len(out)
          /\ spc \in {"sending", "done"} => writes <= total_sent
          /\ spc = "sending" => total_sent < Len(out)
          /\ spc = "done" => total_sent = Len(out)
          /\ spc = "failed" => serr # "none")
    /\ [][/\ writes' = writes + 1 =>
                \/ total_sent' > total_sent
                \/ /\ spc' = "failed"
                   /\ serr' \in {ConnectionBroken, "OSError"}
                   /\ serr' = "OSError" \/ wire' = wire
          /\ spc = "sending" =>
                /\ UNCHANGED <<dpc, dsent, dread, out, nsends, lvars>>
                /\ spc' = "sending" => writes' > writes \/ UNCHANGED svars]_vars
    /\ (spc = "sending") ~> (spc \in {"done", "failed"})

\* one byte went out and the next write was refused
C18_Witness ==
    /\ spc = "failed"
    /\ serr = ConnectionBroken
    /\ writes = 2
    /\ total_sent = 1

\* C19: an entry whose socket has been closed stays in the table, unchanged
\* and with its socket closed, whatever the Server does next; respond and
\* send naming it fail at the write and write nothing.
C19_ClosedEntryStays ==
    [][/\ \A id \in DOMAIN requests :
             sockState[requests[id][1]] = "closed"
             => /\ id \in DOMAIN requests'
                /\ requests'[id] = requests[id]
                /\ sockState'[requests[id][1]] = "closed"
       /\ (/\ OpStep
           /\ lres'.op \in {"respond", "send"}
           /\ lres'.id \in DOMAIN requests
           /\ sockState[requests[lres'.id][1]] = "closed")
          => /\ lres'.res = "OSError"
             /\ written' = written
             /\ responded' = responded]_vars

\* a respond that failed on an entry closed earlier
C19_Witness ==
    /\ lres.op = "respond"
    /\ lres.res = "OSError"
    /\ lres.id \in DOMAIN requests
    /\ sockState[requests[lres.id][1]] = "closed"

\* C20: a respond whose write fails changes neither the table nor any
\* socket; an entry leaves the table only in a step in which respond on that
\* entry has written, closed the socket and returned normally.
C20_FailedRespondChangesNothing ==
    [][/\ (OpStep /\ lres'.op = "respond" /\ lres'.res = "OSError")
             => UNCHANGED <<requests, sockState, written, responded>>
       /\ \A id \in DOMAIN requests :
             id \notin DOMAIN requests'
             => /\ OpStep
                /\ lres'.op = "respond"
                /\ lres'.id = id
                /\ lres'.res = "ok"
                /\ sockState[requests[id][1]] = "open"
                /\ sockState'[requests[id][1]] = "closed"
                /\ written'[requests[id][1]]
                      = written[requests[id][1]] \o ldata']_vars

\* a respond that failed on a connection the peer had reset: the socket is
\* still not closed and the entry is still there
C20_Witness ==
    /\ lres.op = "respond"
    /\ lres.res = "OSError"
    /\ lres.id \in DOMAIN requests
    /\ sockState[requests[lres.id][1]] = "reset"

====
